---- MODULE Spec2Model ----
(***************************************************************************)
(* Model of the note indexer (src/src/indexer.ts), the embedding model     *)
(* singleton (src/src/embeddings.ts) and the hybrid search fusion          *)
(* (src/src/search.ts).                                                    *)
(*                                                                         *)
(* JavaScript runs one continuation at a time: every action below is the   *)
(* code between two suspension points (awaits of an external call), and    *)
(* the resolution or rejection of the awaited call is the action's input.  *)
(***************************************************************************)
EXTENDS Integers, Sequences, FiniteSets, TLC

\* ---------------------------------------------------------------- bounds
NumNotes == 3      \* note ids 1..NumNotes
MaxTime == 2       \* modification times 1..MaxTime
MaxRuns == 2       \* indexing runs started in one behaviour
MaxEdits == 1      \* edits of the note collection in one behaviour
NumDocs == 4       \* notes that a search can return
MaxRank == 3       \* longest ranking a search gets back
NumRows == 3       \* notes that a search with options can match
MaxLimit == 2      \* largest limit of a search with any arguments

\* indexer.ts:24 sets 50; scaled down so that a run has several batches
BATCH_SIZE == 2

Ids == 1..NumNotes
Runs == 1..MaxRuns
Absent == 0
Snapshots == [Ids -> 0..MaxTime]
EmptySnap == [id \in Ids |-> Absent]

Min(a, b) == IF a < b THEN a ELSE b

RECURSIVE SeqToSet(_)
SeqToSet(s) == IF s = <<>> THEN {} ELSE {Head(s)} \cup SeqToSet(Tail(s))

VARIABLES
  source,          \* Apple Notes: id -> modification time, Absent when there is no such note
  store,           \* notes table: id -> stored modification_date, Absent when there is no row
  jobs,            \* indexing_jobs table: sequence of job records, job id = index
  extractor,       \* embeddings.ts: 0 for null, else the instance the load produced
  loadingPromise,  \* embeddings.ts: "null", "pending" or "rejected"
  loads,           \* number of pipeline() calls made so far
  runs,            \* one record per call of startFullIndexing / syncNotes
  edits,           \* number of edits of the note collection so far
  planS, planM, planOut,   \* syncNotes' planning loops on their own
  keyOf,           \* note -> its `${title}::${content}` (two notes may have the same text)
  limit,           \* hybridSearch's limit
  vectorResults,   \* what vectorSearch returned: rows [id, key], best first
  textResults,     \* what textSearch returned
  scores,          \* the Map of hybridSearch, in insertion order: entries [key, score]
  results,         \* what hybridSearch returns
  searchPc,        \* where the call is: "start", "embed", "queries", "sql", "fuse"
                   \* (both rankings are there), "done" (returned), "failed" (rejected)
  query,           \* hybridSearch's query text
  options,         \* hybridSearch's options, NoOptions when undefined
  strategy,        \* "A": the fusion of hybridSearch, "B": advancedHybridSearch
  awaited,         \* the promises the call awaits, each "none", "pending",
                   \* "fulfilled" or "rejected"
  rows             \* result.rows of advancedHybridSearch's query

indexVars == <<source, store, jobs, extractor, loadingPromise, loads, runs, edits>>
planVars == <<planS, planM, planOut>>
queryVars == <<query, options, strategy, awaited, rows>>
searchVars == <<keyOf, limit, vectorResults, textResults, scores, results, searchPc,
                queryVars>>
vars == <<indexVars, planVars, searchVars>>

\* ------------------------------------------------------------ sync planner
\* indexer.ts:125-129, the listing order of the map is the id order
RECURSIVE DeleteLoop(_, _, _)
DeleteLoop(S, M, id) ==
  IF id > NumNotes THEN <<>>
  ELSE (IF M[id] # Absent /\ S[id] = Absent THEN <<id>> ELSE <<>>)
       \o DeleteLoop(S, M, id + 1)

\* indexer.ts:140 with the comparison weakened
IsNewerMutant(appleModDate, existingModDate) == appleModDate >= existingModDate

\* indexer.ts:140
IsNewer(appleModDate, existingModDate) == appleModDate > existingModDate

\* indexer.ts:132-145
RECURSIVE UpdateLoop(_, _, _)
UpdateLoop(S, M, id) ==
  IF id > NumNotes THEN <<>>
  ELSE (IF S[id] = Absent THEN <<>>
        ELSE IF M[id] = Absent THEN <<id>>
        ELSE IF IsNewer(S[id], M[id]) THEN <<id>> ELSE <<>>)
       \o UpdateLoop(S, M, id + 1)

notesToDelete(S, M) == DeleteLoop(S, M, 1)
notesToUpdate(S, M) == UpdateLoop(S, M, 1)

\* ---------------------------------------------------------------- embedder
Emb == [extractor |-> extractor, loadingPromise |-> loadingPromise, loads |-> loads]

\* getExtractor that starts a new load when the last one was rejected
GetExtractorRetryMutant(e) ==
  IF e.extractor # 0 THEN [e |-> e, res |-> "ready"]
  ELSE IF e.loadingPromise = "pending" THEN [e |-> e, res |-> "wait"]
  ELSE [e |-> [e EXCEPT !.loadingPromise = "pending", !.loads = @ + 1], res |-> "wait"]

\* getExtractor without the in-flight check of lines 22-24
GetExtractorMutant(e) ==
  IF e.extractor # 0 THEN [e |-> e, res |-> "ready"]
  ELSE [e |-> [e EXCEPT !.loadingPromise = "pending", !.loads = @ + 1], res |-> "wait"]

\* embeddings.ts:16-38, up to the return: the new module state and what the
\* caller's await sees ("ready": resolves, "wait": pending load, "rejected")
GetExtractor(e) ==
  IF e.extractor # 0 THEN [e |-> e, res |-> "ready"]
  ELSE IF e.loadingPromise # "null"
    THEN [e |-> e, res |-> IF e.loadingPromise = "pending" THEN "wait" ELSE "rejected"]
  ELSE [e |-> [e EXCEPT !.loadingPromise = "pending", !.loads = @ + 1], res |-> "wait"]

SetEmb(e) ==
  /\ extractor' = e.extractor
  /\ loadingPromise' = e.loadingPromise
  /\ loads' = e.loads

\* -------------------------------------------------------------------- runs
IdleRun == [kind |-> "none", pc |-> "idle", S |-> EmptySnap, M |-> EmptySnap,
            notes |-> <<>>, toDelete |-> <<>>, i |-> 0, docs |-> <<>>,
            jobId |-> 0, totalNotes |-> 0, processedNotes |-> 0, failedNotes |-> 0,
            attempts |-> [id \in Ids |-> 0], embedded |-> {},
            upserted |-> {}, deleted |-> {}, got |-> {}, docFails |-> 0,
            failedAt |-> "none", before |-> EmptySnap, absent |-> {}]

Settled(d) == d.st \in {"fulfilled", "rejected"}
AllSettled(docs) == \A k \in 1..Len(docs) : Settled(docs[k])
NumWith(docs, st) == Cardinality({k \in 1..Len(docs) : docs[k].st = st})

\* counters that hold the last batch alone
CountBatchMutant(rec) ==
  [rec EXCEPT !.processedNotes = NumWith(rec.docs, "fulfilled"),
              !.failedNotes = NumWith(rec.docs, "rejected")]

\* a rejected promise counted as processed too
CountResultsMutant(rec) ==
  [rec EXCEPT !.processedNotes = @ + Len(rec.docs),
              !.failedNotes = @ + NumWith(rec.docs, "rejected")]

\* indexer.ts:75-82 and 185-192
CountResults(rec) ==
  [rec EXCEPT !.processedNotes = @ + NumWith(rec.docs, "fulfilled"),
              !.failedNotes = @ + NumWith(rec.docs, "rejected")]

\* Promise.all in the place of Promise.allSettled: the first rejection leaves
\* the run
SettleMutant(rec) ==
  IF NumWith(rec.docs, "rejected") > 0
  THEN [rec EXCEPT !.pc = "failed", !.failedAt = "batch", !.docs = <<>>]
  ELSE IF AllSettled(rec.docs)
  THEN [CountResults(rec) EXCEPT !.pc = "progress", !.docs = <<>>]
  ELSE rec

\* Promise.race in the place of Promise.allSettled: the loop goes on when the
\* first promise of the batch has settled
SettleRaceMutant(rec) ==
  IF \E j \in 1..Len(rec.docs) : Settled(rec.docs[j])
  THEN [CountResults(rec) EXCEPT !.pc = "progress", !.docs = <<>>]
  ELSE rec

\* Promise.allSettled resolves once every promise of the batch has settled;
\* the counting loop runs and updateJobProgress is called (lines 68-85, 175-194)
Settle(rec) ==
  LET t == [rec EXCEPT !.embedded = @ \cup {rec.docs[k].id : k \in
                                  {j \in 1..Len(rec.docs) : rec.docs[j].st = "write"}}]
  IN IF AllSettled(t.docs)
     THEN [CountResults(t) EXCEPT !.pc = "progress", !.docs = <<>>]
     ELSE t

\* slice that loses the last note of a full batch
BatchSliceMutant(notes, i) == SubSeq(notes, i + 1, Min(i + BATCH_SIZE - 1, Len(notes)))

\* indexer.ts:66 and 172
BatchSlice(notes, i) == SubSeq(notes, i + 1, Min(i + BATCH_SIZE, Len(notes)))

\* processNote up to its first suspension (indexer.ts:213-222): the conversion
\* and the hash are synchronous, then generateEmbedding calls getExtractor
\* ("write": the vector and then the upsert are awaited; "model": the load is)
ProcessNoteStart(e, id, mod) ==
  LET g == GetExtractor(e)
  IN [e |-> g.e,
      doc |-> [id |-> id, mod |-> mod,
               st |-> CASE g.res = "ready" -> "write"
                        [] g.res = "wait" -> "model"
                        [] OTHER -> "rejected"],
      got |-> IF g.res = "ready" THEN {g.e.extractor} ELSE {}]

\* batch.map(async (note) => processNote(note)) of a full run (lines 68-72):
\* every callback runs to its first suspension, in order
RECURSIVE StartDocs(_, _, _, _, _)
StartDocs(e, snap, ids, docs, got) ==
  IF ids = <<>> THEN [e |-> e, docs |-> docs, got |-> got]
  ELSE LET p == ProcessNoteStart(e, Head(ids), snap[Head(ids)])
       IN StartDocs(p.e, snap, Tail(ids), Append(docs, p.doc), got \cup p.got)

\* batch.map of a sync run (lines 175-177): every callback calls getNoteDetailsById
FetchDocs(ids) == [k \in 1..Len(ids) |-> [id |-> ids[k], mod |-> Absent, st |-> "fetch"]]

Bump(attempts, ids) ==
  [id \in Ids |-> attempts[id] + Cardinality({k \in 1..Len(ids) : ids[k] = id})]

\* the head of the batch loop (lines 65-72, 171-183) and, past the loop, the
\* call of completeJob (lines 90, 198)
BeginLoop(rec, e) ==
  IF rec.i < Len(rec.notes)
  THEN LET batch == BatchSlice(rec.notes, rec.i)
       IN IF rec.kind = "full"
          THEN LET s == StartDocs(e, rec.S, batch, <<>>, {})
               IN [e |-> s.e,
                   rec |-> Settle([rec EXCEPT !.pc = "batch", !.docs = s.docs,
                                              !.got = @ \cup s.got,
                                              !.docFails = @ + NumWith(s.docs, "rejected"),
                                              !.attempts = Bump(@, batch)])]
          ELSE [e |-> e,
                rec |-> [rec EXCEPT !.pc = "batch", !.docs = FetchDocs(batch),
                                    !.attempts = Bump(@, batch)]]
  ELSE [e |-> e, rec |-> [rec EXCEPT !.pc = "complete"]]

Fail(rec, step) == [rec EXCEPT !.pc = "failed", !.failedAt = step, !.docs = <<>>]

\* indexer.ts:164-168, then the loop
Preload(rec, e) ==
  IF Len(rec.notes) > 0
  THEN LET g == GetExtractor(e)
       IN CASE g.res = "ready" ->
                 BeginLoop([rec EXCEPT !.got = @ \cup {g.e.extractor}], g.e)
            [] g.res = "wait" -> [e |-> g.e, rec |-> [rec EXCEPT !.pc = "preload"]]
            [] OTHER -> [e |-> g.e, rec |-> Fail(rec, "preload")]
  ELSE BeginLoop(rec, e)

Put(r, rec) == runs' = [runs EXCEPT ![r] = rec]

PutBoth(r, x) == Put(r, x.rec) /\ SetEmb(x.e)

EmbUnchanged == UNCHANGED <<extractor, loadingPromise, loads>>

\* ------------------------------------------------------------ job tracker
NewJob(total) == [totalCount |-> total, processedCount |-> 0, failedCount |-> 0,
                  status |-> "running"]

createIndexingJob(total) == jobs' = Append(jobs, NewJob(total))

updateJobProgress(jobId, processed, failed) ==
  jobs' = [jobs EXCEPT ![jobId].processedCount = processed,
                       ![jobId].failedCount = failed]

completeJob(jobId, status) == jobs' = [jobs EXCEPT ![jobId].status = status]

\* a sync run that skips the deletion
HasDeletionsMutant(rec) == FALSE

\* indexer.ts:157
HasDeletions(rec) == Len(rec.toDelete) > 0

\* a run that writes to the first job of the table instead of its own
JobIdOfMutant(created) == 1

\* indexer.ts:59 and 151: the id createIndexingJob returned
JobIdOf(created) == created

\* the listing's failure swallowed, the run going on with no summaries
SummariesFailedMutant(rec) ==
  [rec EXCEPT !.S = EmptySnap, !.pc = "metadata", !.failedAt = "summaries"]

\* indexer.ts:112: the rejection of getAllNotesSummary leaves syncNotes
SummariesFailed(rec) == Fail(rec, "summaries")

PresentIds(snap) == DeleteLoop(EmptySnap, snap, 1)

\* ----------------------------------------------------------------- actions
Started(r) == runs[r].pc # "idle"
CanStart(r) == ~Started(r) /\ (IF r = 1 THEN TRUE ELSE Started(r - 1))

\* startFullIndexing is called: getAllNotesWithDetails is awaited (line 55)
StartFull(r) ==
  /\ CanStart(r)
  /\ Put(r, [runs[r] EXCEPT !.kind = "full", !.pc = "fetchAll"])
  /\ UNCHANGED <<source, store, jobs, edits>> /\ EmbUnchanged

\* syncNotes is called: getAllNotesSummary is awaited (line 112)
StartSync(r) ==
  /\ CanStart(r)
  /\ Put(r, [runs[r] EXCEPT !.kind = "sync", !.pc = "summaries"])
  /\ UNCHANGED <<source, store, jobs, edits>> /\ EmbUnchanged

\* lines 55-59: the notes arrive, createIndexingJob is awaited
FetchAllOk(r) ==
  /\ runs[r].pc = "fetchAll"
  /\ Put(r, [runs[r] EXCEPT !.S = source, !.notes = PresentIds(source),
                            !.totalNotes = Len(PresentIds(source)),
                            !.pc = "createJob"])
  /\ UNCHANGED <<source, store, jobs, edits>> /\ EmbUnchanged

\* lines 112-117: the summaries arrive, getAllNoteMetadata is awaited
SummariesOk(r) ==
  /\ runs[r].pc = "summaries"
  /\ Put(r, [runs[r] EXCEPT !.S = source, !.pc = "metadata"])
  /\ UNCHANGED <<source, store, jobs, edits>> /\ EmbUnchanged

SummariesFail(r) ==
  /\ runs[r].pc = "summaries"
  /\ Put(r, SummariesFailed(runs[r]))
  /\ UNCHANGED <<source, store, jobs, edits>> /\ EmbUnchanged

\* lines 117-151: the metadata arrives, the plan is computed, createIndexingJob
\* is awaited
MetadataOk(r) ==
  /\ runs[r].pc = "metadata"
  /\ LET S == runs[r].S
         upd == notesToUpdate(S, store)
         del == notesToDelete(S, store)
     IN Put(r, [runs[r] EXCEPT !.M = store, !.notes = upd, !.toDelete = del,
                               !.totalNotes = Len(upd) + Len(del),
                               !.pc = "createJob"])
  /\ UNCHANGED <<source, store, jobs, edits>> /\ EmbUnchanged

\* an awaited call of the run's own sequence rejects: the rejection leaves the
\* function (no try/catch in startFullIndexing or syncNotes)
StepFail(r) ==
  /\ runs[r].pc \in {"fetchAll", "metadata", "createJob", "delete", "progressDel",
                     "progress", "complete"}
  /\ Put(r, Fail(runs[r], runs[r].pc))
  /\ UNCHANGED <<source, store, jobs, edits>> /\ EmbUnchanged

\* lines 59-72 and 151-168: the job row exists; a full run enters the loop, a
\* sync run deletes first when there is something to delete
CreateJobOk(r) ==
  /\ runs[r].pc = "createJob"
  /\ createIndexingJob(runs[r].totalNotes)
  /\ LET rec == [runs[r] EXCEPT !.jobId = JobIdOf(Len(jobs) + 1)]
     IN IF rec.kind = "full" THEN PutBoth(r, BeginLoop(rec, Emb))
        ELSE IF HasDeletions(rec)
          THEN Put(r, [rec EXCEPT !.pc = "delete"]) /\ EmbUnchanged
        ELSE PutBoth(r, Preload(rec, Emb))
  /\ UNCHANGED <<source, store, edits>>

\* lines 159-161: the rows are gone, the deletions are counted, updateJobProgress
\* is awaited
DeleteOk(r) ==
  /\ runs[r].pc = "delete"
  /\ store' = [id \in Ids |-> IF id \in SeqToSet(runs[r].toDelete) THEN Absent
                              ELSE store[id]]
  /\ Put(r, [runs[r] EXCEPT !.processedNotes = @ + Len(runs[r].toDelete),
                            !.deleted = SeqToSet(runs[r].toDelete),
                            !.pc = "progressDel"])
  /\ UNCHANGED <<source, jobs, edits>> /\ EmbUnchanged

\* lines 85-86, 161-168 and 194-196: the counters are stored; the run goes on
ProgressOk(r) ==
  /\ runs[r].pc \in {"progress", "progressDel"}
  /\ updateJobProgress(runs[r].jobId, runs[r].processedNotes, runs[r].failedNotes)
  /\ IF runs[r].pc = "progressDel"
     THEN PutBoth(r, Preload(runs[r], Emb))
     ELSE PutBoth(r, BeginLoop([runs[r] EXCEPT !.i = @ + BATCH_SIZE], Emb))
  /\ UNCHANGED <<source, store, edits>>

\* lines 90-101 and 198-207
CompleteOk(r) ==
  /\ runs[r].pc = "complete"
  /\ completeJob(runs[r].jobId, "completed")
  /\ Put(r, [runs[r] EXCEPT !.pc = "done"])
  /\ UNCHANGED <<source, store, edits>> /\ EmbUnchanged

\* the continuations of the callers that await the load, run when it settles
OnLoadResolved(rec, e) ==
  IF rec.pc = "preload"
  THEN BeginLoop([rec EXCEPT !.got = @ \cup {e.extractor}], e).rec
  ELSE IF rec.pc = "batch"
  THEN Settle([rec EXCEPT
          !.docs = [k \in 1..Len(rec.docs) |->
                      IF rec.docs[k].st = "model"
                      THEN [rec.docs[k] EXCEPT !.st = "write"] ELSE rec.docs[k]],
          !.got = @ \cup (IF NumWith(rec.docs, "model") > 0 THEN {e.extractor} ELSE {})])
  ELSE rec

OnLoadRejected(rec) ==
  IF rec.pc = "preload" THEN Fail(rec, "preload")
  ELSE IF rec.pc = "batch"
  THEN Settle([rec EXCEPT
          !.docs = [k \in 1..Len(rec.docs) |->
                      IF rec.docs[k].st = "model"
                      THEN [rec.docs[k] EXCEPT !.st = "rejected"] ELSE rec.docs[k]],
          !.docFails = @ + NumWith(rec.docs, "model")])
  ELSE rec

\* embeddings.ts:30-34: pipeline() resolves
LoadOk ==
  /\ loadingPromise = "pending"
  /\ LET e == [extractor |-> loads, loadingPromise |-> "null", loads |-> loads]
     IN /\ SetEmb(e)
        /\ runs' = [r \in Runs |-> OnLoadResolved(runs[r], e)]
  /\ UNCHANGED <<source, store, jobs, edits>>

\* embeddings.ts:30: pipeline() rejects; lines 33-34 are not reached
LoadFail ==
  /\ loadingPromise = "pending"
  /\ loadingPromise' = "rejected"
  /\ runs' = [r \in Runs |-> OnLoadRejected(runs[r])]
  /\ UNCHANGED <<source, store, jobs, edits, extractor, loads>>

HasDoc(r, k, st) ==
  /\ runs[r].pc = "batch"
  /\ k \in 1..Len(runs[r].docs)
  /\ runs[r].docs[k].st = st

\* a null answer of getNoteDetailsById thrown as an error
NullDetailsMutant(doc) == [doc EXCEPT !.st = "rejected"]

\* indexer.ts:178-181: details is null, processNote is skipped and the
\* callback returns
NullDetails(doc) == [doc EXCEPT !.st = "fulfilled"]

\* lines 177-181: getNoteDetailsById resolves, with the note or with null
FetchOk(r, k) ==
  /\ HasDoc(r, k, "fetch")
  /\ LET rec == runs[r]
         id == rec.docs[k].id
     IN IF source[id] = Absent
        THEN /\ Put(r, Settle([rec EXCEPT !.docs[k] = NullDetails(@),
                                          !.absent = @ \cup {id}]))
             /\ EmbUnchanged
        ELSE LET p == ProcessNoteStart(Emb, id, source[id])
             IN /\ Put(r, Settle([rec EXCEPT !.docs[k] = p.doc,
                                             !.got = @ \cup p.got,
                                             !.docFails = @ + (IF p.doc.st = "rejected"
                                                               THEN 1 ELSE 0)]))
                /\ SetEmb(p.e)
  /\ UNCHANGED <<source, store, jobs, edits>>

\* a write that replaces the table by the one row
UpsertMutant(table, id, mod) == [j \in Ids |-> IF j = id THEN mod ELSE Absent]

\* indexer.ts:224-235: upsertNote writes the row of the note's id
Upsert(table, id, mod) == [table EXCEPT ![id] = mod]

\* embeddings.ts:52-53 and indexer.ts:222-235: the vector arrives, upsertNote is
\* awaited and the row is written
UpsertOk(r, k) ==
  /\ HasDoc(r, k, "write")
  /\ store' = Upsert(store, runs[r].docs[k].id, runs[r].docs[k].mod)
  /\ Put(r, Settle([runs[r] EXCEPT !.docs[k].st = "fulfilled",
                                   !.upserted = @ \cup {runs[r].docs[k].id}]))
  /\ UNCHANGED <<source, jobs, edits>> /\ EmbUnchanged

\* a step of one note's pipeline rejects: the promise of that note rejects
DocFail(r, k) ==
  /\ \E st \in {"fetch", "write"} : HasDoc(r, k, st)
  /\ Put(r, Settle([runs[r] EXCEPT !.docs[k].st = "rejected", !.docFails = @ + 1]))
  /\ UNCHANGED <<source, store, jobs, edits>> /\ EmbUnchanged

\* the user creates, edits or deletes a note
Edit(id, t) ==
  /\ edits < MaxEdits
  /\ t # source[id]
  /\ source' = [source EXCEPT ![id] = t]
  /\ edits' = edits + 1
  /\ UNCHANGED <<store, jobs, runs>> /\ EmbUnchanged

NoPlan == [done |-> FALSE, toUpdate |-> <<>>, toDelete |-> <<>>]
NoOptions == [defined |-> FALSE]
NoneAwaited == [embedding |-> "none", vector |-> "none", text |-> "none", sql |-> "none"]
PlanIdle == planS = EmptySnap /\ planM = EmptySnap /\ planOut = NoPlan
SearchIdle ==
  /\ keyOf = <<>> /\ limit = 0 /\ vectorResults = <<>> /\ textResults = <<>>
  /\ scores = <<>> /\ results = <<>> /\ searchPc = "idle"
  /\ query = "" /\ options = NoOptions /\ strategy = "none"
  /\ awaited = NoneAwaited /\ rows = <<>>

Common(A) == A /\ UNCHANGED <<planVars, searchVars>>

IndexIdle ==
  /\ source = EmptySnap /\ store = EmptySnap /\ jobs = <<>> /\ extractor = 0
  /\ loadingPromise = "null" /\ loads = 0 /\ runs = [r \in Runs |-> IdleRun]
  /\ edits = 0

\* what every run does once it has been started
Step ==
  \/ \E r \in Runs : Common(FetchAllOk(r))
  \/ \E r \in Runs : Common(SummariesOk(r))
  \/ \E r \in Runs : Common(SummariesFail(r))
  \/ \E r \in Runs : Common(MetadataOk(r))
  \/ \E r \in Runs : Common(StepFail(r))
  \/ \E r \in Runs : Common(CreateJobOk(r))
  \/ \E r \in Runs : Common(DeleteOk(r))
  \/ \E r \in Runs : Common(ProgressOk(r))
  \/ \E r \in Runs : Common(CompleteOk(r))
  \/ Common(LoadOk)
  \/ Common(LoadFail)
  \/ \E r \in Runs, k \in 1..BATCH_SIZE : Common(FetchOk(r, k))
  \/ \E r \in Runs, k \in 1..BATCH_SIZE : Common(UpsertOk(r, k))
  \/ \E r \in Runs, k \in 1..BATCH_SIZE : Common(DocFail(r, k))

InitIndex ==
  /\ jobs = <<>>
  /\ extractor = 0
  /\ loadingPromise = "null"
  /\ loads = 0
  /\ runs = [r \in Runs |-> IdleRun]
  /\ edits = 0
  /\ PlanIdle
  /\ SearchIdle

\* One run, full or sync, over any note collection and any table left by
\* earlier processes.
Init == InitIndex /\ source \in Snapshots /\ store \in Snapshots

Next ==
  \/ Common(StartFull(1))
  \/ Common(StartSync(1))
  \/ Step
  \/ \E id \in Ids, t \in 0..MaxTime : Common(Edit(id, t))

Spec == Init /\ [][Next]_vars

\* Several runs, started at any time, over an empty table and a note collection
\* that does not change.
OldSnapshots == {s \in Snapshots : s[NumNotes] = Absent /\ \A id \in Ids : s[id] <= 1}

InitRuns == InitIndex /\ source \in OldSnapshots /\ store \in OldSnapshots

NextRuns ==
  \/ \E r \in Runs : Common(StartFull(r))
  \/ \E r \in Runs : Common(StartSync(r))
  \/ Step

RunsSpec == InitRuns /\ [][NextRuns]_vars

\* Runs one after another over a note collection that does not change: a full
\* run, a full run again, then a sync run. A call that has ended leaves its
\* place to the next call, which remembers the table it found.
Ended(r) == runs[r].pc \in {"done", "failed"}

NextCall(kind) ==
  [IdleRun EXCEPT !.kind = kind, !.pc = IF kind = "full" THEN "fetchAll" ELSE "summaries",
                  !.before = store]

\* startFullIndexing is called once more, until two full runs have their jobs
FullAgain ==
  /\ Ended(1)
  /\ Len(jobs) < 2
  /\ Put(1, NextCall("full"))
  /\ UNCHANGED <<source, store, jobs, edits>> /\ EmbUnchanged

\* syncNotes is called after the two full runs
SyncAfter ==
  /\ Ended(1)
  /\ Len(jobs) = 2
  /\ Put(1, NextCall("sync"))
  /\ UNCHANGED <<source, store, jobs, edits>> /\ EmbUnchanged

InitRerun == InitIndex /\ source \in Snapshots /\ store \in OldSnapshots

NextRerun ==
  \/ Common(StartFull(1))
  \/ Common(FullAgain)
  \/ Common(SyncAfter)
  \/ Step

RerunSpec == InitRerun /\ [][NextRerun]_vars

\* Two runs, started at any time, over an empty table, while the user
\* creates a note.
InitRace == InitIndex /\ source = EmptySnap /\ store = EmptySnap

NextRace ==
  \/ \E r \in Runs : Common(StartFull(r))
  \/ \E r \in Runs : Common(StartSync(r))
  \/ Step
  \/ \E id \in Ids, t \in 0..MaxTime : Common(Edit(id, t))

RaceSpec == InitRace /\ [][NextRace]_vars

\* ------------------------------------------------------- the planner alone
\* indexer.ts:120-145 applied to any summaries and any metadata
PlanStep ==
  /\ ~planOut.done
  /\ planOut' = [done |-> TRUE, toUpdate |-> notesToUpdate(planS, planM),
                 toDelete |-> notesToDelete(planS, planM)]
  /\ UNCHANGED <<planS, planM, indexVars, searchVars>>

InitPlan ==
  /\ planS \in Snapshots /\ planM \in Snapshots /\ planOut = NoPlan
  /\ IndexIdle /\ SearchIdle

PlanSpec == InitPlan /\ [][PlanStep]_vars

\* ------------------------------------------------------------------ search
\* search.ts:44
k == 60

Docs == 1..NumDocs

\* search.ts:187 and 197 set 50; scaled down
FETCH_SIZE == 2

\* search.ts:205: COALESCE(rank, 9999)
ABSENT_RANK == 9999

RECURSIVE Gcd(_, _)
Gcd(a, b) == IF b = 0 THEN a ELSE Gcd(b, a % b)

\* the least common multiple of a..b
RECURSIVE LcmRange(_, _)
LcmRange(a, b) ==
  IF a > b THEN 1 ELSE LET r == LcmRange(a + 1, b) IN (r \div Gcd(r, a)) * a

\* scores are kept as exact fractions over the common denominator Den of
\* 1 / (k + idx), 1 / (60 + rank) and 1 / (60 + 9999)
Den ==
  LET d == LcmRange(k, k + (IF MaxRank > FETCH_SIZE THEN MaxRank - 1 ELSE FETCH_SIZE))
  IN (d \div Gcd(d, 60 + ABSENT_RANK)) * (60 + ABSENT_RANK)

\* search.ts:50 and 66: 1 / (k + idx)
rrfScore(idx) == Den \div (k + idx)

HasKey(sc, key) == \E j \in 1..Len(sc) : sc[j].key = key
IndexOfKey(sc, key) == CHOOSE j \in 1..Len(sc) : sc[j].key = key

\* search.ts:49-60 and 65-76: one callback of forEach
AddScore(sc, key, s) ==
  IF HasKey(sc, key)
  THEN [sc EXCEPT ![IndexOfKey(sc, key)].score = @ + s]
  ELSE Append(sc, [key |-> key, score |-> s])

\* search.ts:48-61 and 64-77: forEach over one ranking, idx the 0-based index
RECURSIVE ForEach(_, _, _)
ForEach(sc, ranking, idx) ==
  IF idx >= Len(ranking) THEN sc
  ELSE ForEach(AddScore(sc, ranking[idx + 1].key, rrfScore(idx)), ranking, idx + 1)

\* a sort that is not stable: an entry goes in front of the entries it ties with
InsertDescMutant(sorted, x) ==
  LET n == Cardinality({j \in 1..Len(sorted) : sorted[j].score > x.score})
  IN SubSeq(sorted, 1, n) \o <<x>> \o SubSeq(sorted, n + 1, Len(sorted))

\* Array.prototype.sort with (a, b) => b.score - a.score: stable, so an entry
\* goes behind the entries that score at least as much
InsertDesc(sorted, x) ==
  LET n == Cardinality({j \in 1..Len(sorted) : sorted[j].score >= x.score})
  IN SubSeq(sorted, 1, n) \o <<x>> \o SubSeq(sorted, n + 1, Len(sorted))

RECURSIVE SortDesc(_, _)
SortDesc(sorted, rest) ==
  IF rest = <<>> THEN sorted ELSE SortDesc(InsertDesc(sorted, Head(rest)), Tail(rest))

\* Array.prototype.slice(0, end): a negative end counts from the end
SliceTo(s, end) ==
  IF end < 0 THEN SubSeq(s, 1, Len(s) + end) ELSE SubSeq(s, 1, Min(end, Len(s)))

\* search.ts:80-83
TopResults(sc, lim) == SliceTo(SortDesc(<<>>, sc), lim)

\* search.ts:33-85: the two rankings have arrived; the fusion runs
Fuse ==
  /\ searchPc = "fuse"
  /\ LET sc == ForEach(ForEach(<<>>, vectorResults, 0), textResults, 0)
     IN /\ scores' = sc
        /\ results' = TopResults(sc, limit)
  /\ searchPc' = "done"
  /\ UNCHANGED <<keyOf, limit, vectorResults, textResults, queryVars, indexVars,
                 planVars>>

\* a ranking lists each note of the table at most once
Rankings(lim) ==
  UNION {{s \in [1..n -> Docs] : \A i, j \in 1..n : i # j => s[i] # s[j]} :
         n \in 0..Min(lim, MaxRank)}

Rows(s) == [i \in 1..Len(s) |-> [id |-> s[i], key |-> keyOf[s[i]]]]

\* texts, up to renaming: note d has a text of its own or the text of an earlier note
Texts ==
  {f \in [Docs -> Docs] :
     \A d \in Docs : f[d] = d \/ (f[d] < d /\ f[f[d]] = f[d])}

InitSearch ==
  /\ keyOf \in Texts
  /\ limit \in 1..NumDocs
  /\ \E v \in Rankings(limit), x \in Rankings(limit) :
       vectorResults = Rows(v) /\ textResults = Rows(x)
  /\ scores = <<>> /\ results = <<>> /\ searchPc = "fuse"
  /\ query = "q" /\ options = NoOptions /\ strategy = "A"
  /\ awaited = [NoneAwaited EXCEPT !.embedding = "fulfilled", !.vector = "fulfilled",
                                   !.text = "fulfilled"]
  /\ rows = <<>>
  /\ IndexIdle /\ PlanIdle

SearchSpec == InitSearch /\ [][Fuse]_vars

\* ------------------------------------------------- a search with any arguments
Matching == 1..NumRows
Limits == (0 - 1)..MaxLimit
Queries == {"", "q"}

\* the options object of hybridSearch (search.ts:11-19): dated stands for a
\* truthy created_/modified_ bound; has_images false is a value, not undefined
Options ==
  {NoOptions} \cup
  [defined : {TRUE}, dated : BOOLEAN, has_images : {"undefined", "false"},
   sort_by : {"undefined", "relevance", "creation_date", "modification_date"},
   sort_order : {"undefined", "asc", "desc"}]

\* search.ts:22-29
UsesAdvanced(o) ==
  IF o.defined
  THEN o.dated \/ o.has_images # "undefined" \/ o.sort_by # "undefined"
  ELSE FALSE

\* a sort_by that is not looked at
SortByMutant(o) == "relevance"

\* search.ts:166-167
SortBy(o) == IF o.defined /\ o.sort_by # "undefined" THEN o.sort_by ELSE "relevance"
SortOrder(o) == IF o.defined /\ o.sort_order # "undefined" THEN o.sort_order ELSE "desc"

\* Promise.allSettled in the place of Promise.all: a rejected query counts as
\* an answer
PromiseAllMutant(a, b) ==
  IF a \in {"fulfilled", "rejected"} /\ b \in {"fulfilled", "rejected"} THEN "fulfilled"
  ELSE "pending"

\* search.ts:38-41: Promise.all rejects with the first rejection and fulfils
\* when both promises have
PromiseAll(a, b) ==
  IF a = "rejected" \/ b = "rejected" THEN "rejected"
  ELSE IF a = "fulfilled" /\ b = "fulfilled" THEN "fulfilled"
  ELSE "pending"

\* where hybridSearch is once a query of Strategy A has settled
AfterQueries(a) ==
  LET all == PromiseAll(a.vector, a.text)
  IN CASE all = "rejected" -> "failed"
       [] all = "fulfilled" -> "fuse"
       [] OTHER -> "queries"

\* vectorSearch / textSearch over the matching notes: at most lim rows, none
\* for lim = 0, and no answer for a negative lim
Answers(lim) == {s \in Rankings(lim) : \A i \in 1..Len(s) : s[i] \in Matching}

\* search.ts:181 and 191: ROW_NUMBER() of a note in a sub-ranking, 0 for NULL
RowNumber(ranking, id) ==
  IF \E i \in 1..Len(ranking) : ranking[i] = id
  THEN CHOOSE i \in 1..Len(ranking) : ranking[i] = id
  ELSE 0

\* search.ts:205: COALESCE(rank, 9999)
Coalesce(rank) == IF rank = 0 THEN ABSENT_RANK ELSE rank

\* search.ts:205: rrf_score
rrfSql(vrank, trank) ==
  Den \div (60 + Coalesce(vrank)) + Den \div (60 + Coalesce(trank))

\* search.ts:199-207: the rows of the FULL OUTER JOIN
JoinRow(id, v, x, c, md) ==
  [id |-> id, key |-> keyOf[id], creation_date |-> c[id], modification_date |-> md[id],
   score |-> rrfSql(RowNumber(v, id), RowNumber(x, id))]

Joined(v, x, c, md) ==
  {JoinRow(id, v, x, c, md) : id \in SeqToSet(v) \cup SeqToSet(x)}

\* search.ts:169-174 and 208: a may stand before b under finalOrderBy
MayPrecede(o, a, b) ==
  CASE SortBy(o) = "creation_date" ->
         IF SortOrder(o) = "asc" THEN a.creation_date <= b.creation_date
         ELSE a.creation_date >= b.creation_date
    [] SortBy(o) = "modification_date" ->
         IF SortOrder(o) = "asc" THEN a.modification_date <= b.modification_date
         ELSE a.modification_date >= b.modification_date
    [] OTHER -> a.score >= b.score

\* ORDER BY leaves the order of rows with equal sort keys open: every order
\* of the joined rows that respects finalOrderBy
OrderedBy(o, J) ==
  {s \in [1..Cardinality(J) -> J] :
     /\ \A i, j \in 1..Cardinality(J) : i # j => s[i] # s[j]
     /\ \A i, j \in 1..Cardinality(J) : i < j => MayPrecede(o, s[i], s[j])}

\* search.ts:213-217
MapRows(rs) == [i \in 1..Len(rs) |-> [key |-> rs[i].key, score |-> rs[i].score]]

\* hybridSearch is called: the strategy is chosen and, in both, generateEmbedding
\* is awaited (lines 22-35 and 127)
CallSearch ==
  /\ searchPc = "start"
  /\ strategy' = IF UsesAdvanced(options) THEN "B" ELSE "A"
  /\ awaited' = [awaited EXCEPT !.embedding = "pending"]
  /\ searchPc' = "embed"
  /\ UNCHANGED <<keyOf, limit, vectorResults, textResults, scores, results, query,
                 options, rows, indexVars, planVars>>

\* the query vector arrives: Strategy A sends its two queries (lines 38-41),
\* Strategy B its one (line 211)
EmbedOk ==
  /\ searchPc = "embed"
  /\ IF strategy = "A"
     THEN /\ awaited' = [awaited EXCEPT !.embedding = "fulfilled",
                                        !.vector = "pending", !.text = "pending"]
          /\ searchPc' = "queries"
     ELSE /\ awaited' = [awaited EXCEPT !.embedding = "fulfilled", !.sql = "pending"]
          /\ searchPc' = "sql"
  /\ UNCHANGED <<keyOf, limit, vectorResults, textResults, scores, results, query,
                 options, strategy, rows, indexVars, planVars>>

\* generateEmbedding rejects: the rejection leaves hybridSearch
EmbedFail ==
  /\ searchPc = "embed"
  /\ awaited' = [awaited EXCEPT !.embedding = "rejected"]
  /\ searchPc' = "failed"
  /\ UNCHANGED <<keyOf, limit, vectorResults, textResults, scores, results, query,
                 options, strategy, rows, indexVars, planVars>>

VectorOk(v) ==
  /\ searchPc = "queries" /\ awaited.vector = "pending"
  /\ vectorResults' = Rows(v)
  /\ awaited' = [awaited EXCEPT !.vector = "fulfilled"]
  /\ searchPc' = AfterQueries(awaited')
  /\ UNCHANGED <<keyOf, limit, textResults, scores, results, query, options, strategy,
                 rows, indexVars, planVars>>

TextOk(x) ==
  /\ searchPc = "queries" /\ awaited.text = "pending"
  /\ textResults' = Rows(x)
  /\ awaited' = [awaited EXCEPT !.text = "fulfilled"]
  /\ searchPc' = AfterQueries(awaited')
  /\ UNCHANGED <<keyOf, limit, vectorResults, scores, results, query, options, strategy,
                 rows, indexVars, planVars>>

VectorFail ==
  /\ searchPc = "queries" /\ awaited.vector = "pending"
  /\ awaited' = [awaited EXCEPT !.vector = "rejected"]
  /\ searchPc' = AfterQueries(awaited')
  /\ UNCHANGED <<keyOf, limit, vectorResults, textResults, scores, results, query,
                 options, strategy, rows, indexVars, planVars>>

TextFail ==
  /\ searchPc = "queries" /\ awaited.text = "pending"
  /\ awaited' = [awaited EXCEPT !.text = "rejected"]
  /\ searchPc' = AfterQueries(awaited')
  /\ UNCHANGED <<keyOf, limit, vectorResults, textResults, scores, results, query,
                 options, strategy, rows, indexVars, planVars>>

\* search.ts:179-217: the query of Strategy B answers. v and x are the two
\* sub-rankings (at most FETCH_SIZE rows each, whatever the limit), c and md
\* the dates of the notes; LIMIT takes a limit that is not negative
SqlOk(v, x, c, md) ==
  /\ searchPc = "sql"
  /\ limit >= 0
  /\ \E s \in OrderedBy(options, Joined(v, x, c, md)) :
       /\ rows' = SubSeq(s, 1, Min(limit, Len(s)))
       /\ results' = MapRows(rows')
  /\ vectorResults' = Rows(v)
  /\ textResults' = Rows(x)
  /\ awaited' = [awaited EXCEPT !.sql = "fulfilled"]
  /\ searchPc' = "done"
  /\ UNCHANGED <<keyOf, limit, scores, query, options, strategy, indexVars, planVars>>

\* pool.query rejects: the rejection leaves advancedHybridSearch
SqlFail ==
  /\ searchPc = "sql"
  /\ awaited' = [awaited EXCEPT !.sql = "rejected"]
  /\ searchPc' = "failed"
  /\ UNCHANGED <<keyOf, limit, vectorResults, textResults, scores, results, query,
                 options, strategy, rows, indexVars, planVars>>

\* the dates of the matching notes: a note is modified no earlier than created
Dates == [Matching -> 1..MaxTime]
DatePairs == {p \in Dates \X Dates : \A d \in Matching : p[1][d] <= p[2][d]}

\* the sub-rankings of Strategy B: LIMIT 50, whatever the limit of the call
SubRankings == Answers(FETCH_SIZE)

InitQuery ==
  /\ keyOf = [d \in Docs |-> d]
  /\ limit \in Limits
  /\ query \in Queries
  /\ options \in Options
  /\ strategy = "none" /\ awaited = NoneAwaited
  /\ vectorResults = <<>> /\ textResults = <<>>
  /\ scores = <<>> /\ results = <<>> /\ rows = <<>>
  /\ searchPc = "start"
  /\ IndexIdle /\ PlanIdle

NextQuery ==
  \/ CallSearch
  \/ EmbedOk
  \/ EmbedFail
  \/ (searchPc = "queries" /\ \E v \in Answers(limit) : VectorOk(v))
  \/ (searchPc = "queries" /\ \E x \in Answers(limit) : TextOk(x))
  \/ VectorFail
  \/ TextFail
  \/ Fuse
  \/ (searchPc = "sql" /\ \E v \in SubRankings, x \in SubRankings, p \in DatePairs :
                            SqlOk(v, x, p[1], p[2]))
  \/ SqlFail

QuerySpec == InitQuery /\ [][NextQuery]_vars

\* ------------------------------------------------------------------ claims
Present(snap) == {id \in Ids : snap[id] # Absent}
NoAttempt(rec) == \A id \in Ids : rec.attempts[id] = 0
JobOf(rec) == jobs[rec.jobId]

\* C1: the plan of syncNotes: toDelete is the ids of M not in S; toUpdate is the
\* ids of S not in M and the ids of both whose source time is strictly greater;
\* the two are disjoint; equal timestamps are in neither; S={A:2,B:1},
\* M={B:1,C:1} gives toUpdate={A}, toDelete={C}.
C1_SyncPlan ==
  planOut.done =>
    LET U == SeqToSet(planOut.toUpdate)
        D == SeqToSet(planOut.toDelete)
        InS == Present(planS)
        InM == Present(planM)
    IN /\ D = InM \ InS
       /\ U = (InS \ InM) \cup {id \in InS \cap InM : planS[id] > planM[id]}
       /\ U \cap D = {}
       /\ \A id \in InS \cap InM : planS[id] = planM[id] => id \notin U \cup D
       /\ Len(planOut.toUpdate) = Cardinality(U)
       /\ Len(planOut.toDelete) = Cardinality(D)

C1_Witness ==
  /\ planOut.done
  /\ planS = [id \in Ids |-> CASE id = 1 -> 2 [] id = 2 -> 1 [] OTHER -> Absent]
  /\ planM = [id \in Ids |-> CASE id = 2 -> 1 [] id = 3 -> 1 [] OTHER -> Absent]
  /\ planOut.toUpdate = <<1>>
  /\ planOut.toDelete = <<3>>

\* C2: in every state, every job record has processedCount + failedCount <=
\* totalCount.
C2_CountsWithinTotal ==
  \A j \in 1..Len(jobs) :
    jobs[j].processedCount + jobs[j].failedCount <= jobs[j].totalCount

C2_Witness ==
  \E j \in 1..Len(jobs) :
    /\ jobs[j].status = "running"
    /\ jobs[j].failedCount > 0
    /\ jobs[j].processedCount > 0
    /\ jobs[j].processedCount + jobs[j].failedCount < jobs[j].totalCount

\* C3: when startFullIndexing has returned, processedNotes + failedNotes =
\* totalNotes, in the result and in the job record, whichever notes failed.
C3_FullRunAccounts ==
  \A r \in Runs :
    (runs[r].kind = "full" /\ runs[r].pc = "done") =>
      /\ runs[r].processedNotes + runs[r].failedNotes = runs[r].totalNotes
      /\ JobOf(runs[r]).processedCount + JobOf(runs[r]).failedCount
           = JobOf(runs[r]).totalCount
      /\ runs[r].totalNotes = Len(runs[r].notes)

C3_Witness ==
  \E r \in Runs :
    /\ runs[r].kind = "full" /\ runs[r].pc = "done"
    /\ runs[r].failedNotes > 0 /\ runs[r].processedNotes > 0
    /\ runs[r].totalNotes = NumNotes

\* C4: every run that has created its job record has brought the job to
\* completed by the time the run has ended (returned or rejected), whether a
\* note's step, the deletion, the preload or a progress update failed in it.
C4_EndedRunsCompleted ==
  \A r \in Runs :
    (/\ runs[r].pc \in {"done", "failed"}
     /\ runs[r].jobId # 0
     /\ runs[r].failedAt \in {"none", "delete", "preload", "progressDel", "progress"}) =>
      JobOf(runs[r]).status = "completed"

\* C5: a rejected note is counted in failedNotes and stops nothing: the batch
\* await never rejects, every note of a started batch has been attempted once
\* and no note of a later batch has; past the loop every note of the operand
\* set has been attempted exactly once.
C5_FailSoft ==
  \A r \in Runs :
    LET rec == runs[r]
        n == Len(rec.notes)
        begun == IF rec.pc \in {"batch", "progress"} THEN Min(rec.i + BATCH_SIZE, n)
                 ELSE IF rec.pc \in {"complete", "done"} THEN n ELSE 0
    IN /\ rec.failedAt # "batch"
       /\ rec.pc \in {"batch", "progress", "complete", "done"} =>
            /\ \A j \in 1..n : rec.attempts[rec.notes[j]] = (IF j <= begun THEN 1 ELSE 0)
            /\ \A id \in Ids \ SeqToSet(rec.notes) : rec.attempts[id] = 0
       /\ rec.pc \in {"progress", "complete", "done"} => rec.failedNotes = rec.docFails
       /\ rec.pc = "done" => JobOf(rec).failedCount = rec.docFails

C5_Witness ==
  \E r \in Runs :
    /\ runs[r].pc = "done"
    /\ Len(runs[r].notes) = NumNotes
    /\ runs[r].failedNotes >= BATCH_SIZE
    /\ runs[r].upserted # {}
    /\ \A id \in Ids : runs[r].attempts[id] = 1

\* C6: pipeline() is called at most once, whoever calls getExtractor and
\* whenever; every caller that gets an extractor gets the one of that load.
Waiters(rec) ==
  IF rec.pc = "preload" THEN 1
  ELSE IF rec.pc = "batch" THEN NumWith(rec.docs, "model") ELSE 0

C6_SingleLoad ==
  /\ loads <= 1
  /\ \A r \in Runs : runs[r].got \subseteq {1}
  /\ \A r \in Runs : runs[r].got # {} => extractor = 1
  /\ (\E r \in Runs : Waiters(runs[r]) > 0) => (loadingPromise = "pending" /\ loads = 1)

C6_Witness ==
  /\ loadingPromise = "pending"
  /\ loads = 1
  /\ \A r \in Runs : Waiters(runs[r]) > 0
  /\ \E r \in Runs : Waiters(runs[r]) > 1

\* C7: a sync run neither fetches nor embeds nor upserts a note that is in
\* both listings with a source time equal to or older than the stored one; a
\* sync run that finds the two listings equal fetches nothing, loads no model,
\* writes and deletes nothing.
Planned(rec) == rec.kind = "sync" /\ rec.pc \notin {"idle", "summaries", "metadata"}
                /\ rec.failedAt \notin {"summaries", "metadata"}

C7_UnchangedUntouched ==
  \A r \in Runs :
    LET rec == runs[r] IN
    Planned(rec) =>
      /\ \A id \in Present(rec.S) \cap Present(rec.M) :
           rec.S[id] <= rec.M[id] =>
             /\ rec.attempts[id] = 0
             /\ id \notin rec.embedded
             /\ id \notin rec.upserted
      /\ rec.S = rec.M =>
           /\ NoAttempt(rec) /\ rec.embedded = {} /\ rec.upserted = {}
           /\ rec.deleted = {} /\ rec.got = {} /\ loads = 0

C7_Witness ==
  \E r \in Runs :
    /\ runs[r].kind = "sync" /\ runs[r].pc = "done"
    /\ \E id \in Ids : runs[r].S[id] # Absent /\ runs[r].S[id] < runs[r].M[id]
    /\ \E id \in Ids : runs[r].S[id] # Absent /\ runs[r].S[id] = runs[r].M[id]
    /\ runs[r].upserted # {}

\* C8: a sync run whose summary listing or metadata listing has rejected has
\* created no job, deleted nothing, fetched and upserted nothing, and has ended.
C8_ListingFailureActsOnNothing ==
  \A r \in Runs :
    LET rec == runs[r] IN
    (rec.kind = "sync" /\ rec.failedAt \in {"summaries", "metadata"}) =>
      /\ rec.pc = "failed"
      /\ rec.jobId = 0 /\ jobs = <<>>
      /\ rec.deleted = {} /\ rec.upserted = {} /\ NoAttempt(rec)
      /\ rec.notes = <<>> /\ rec.toDelete = <<>>

C8_Witness ==
  \E r \in Runs :
    /\ runs[r].kind = "sync" /\ runs[r].failedAt = "metadata"
    /\ \E id \in Ids : store[id] # Absent /\ runs[r].S[id] = Absent
    /\ \E id \in Ids : store[id] = Absent /\ runs[r].S[id] # Absent

\* C9: a job that is completed stays as it is: its status stays completed and
\* its counters keep their values in every later state; a job is never put
\* back to running.
C9_CompletedIsFinal ==
  [][\A j \in 1..Len(jobs) :
       jobs[j].status = "completed" => (Len(jobs') >= j /\ jobs'[j] = jobs[j])]_vars

C9_Witness ==
  /\ Len(jobs) = 2
  /\ jobs[1].status = "completed"
  /\ jobs[1].processedCount > 0
  /\ jobs[2].status = "running"
  /\ jobs[2].processedCount > 0

\* C10: after the fusion of Strategy A, the entry of every document of a
\* ranking scores the sum of 1/(60 + rank) over the rankings the document is
\* in, rank its 0-based position there; absent from a ranking counts 0. (A
\* document is taken as the code takes it, by its title and content; its
\* position is the first row that carries them.)
Position(ranking, d) ==
  LET at == {i \in 1..Len(ranking) : ranking[i].key = keyOf[d]}
  IN IF at = {} THEN 0 ELSE CHOOSE i \in at : \A j \in at : i <= j

Share(ranking, d) ==
  IF Position(ranking, d) = 0 THEN 0 ELSE Den \div (60 + Position(ranking, d) - 1)

C10_RrfPerNote ==
  searchPc = "done" =>
    \A d \in Docs :
      (Position(vectorResults, d) # 0 \/ Position(textResults, d) # 0) =>
        /\ HasKey(scores, keyOf[d])
        /\ scores[IndexOfKey(scores, keyOf[d])].score
             = Share(vectorResults, d) + Share(textResults, d)

\* C11: Strategy A returns at most limit results, by fused score descending,
\* entries of equal score in ranking-list order (vector rows, then the rows
\* only the lexical ranking has); nothing left out beats a result; vector
\* [D1,D2,D3] and lexical [D2,D4] give D2, D1, then D4 (1/61) and D3 (1/62).
Listed == vectorResults \o textResults
FirstSeen(key) ==
  CHOOSE i \in 1..Len(Listed) :
    Listed[i].key = key /\ \A j \in 1..(i - 1) : Listed[j].key # key
Before(a, b) ==
  a.score > b.score \/ (a.score = b.score /\ FirstSeen(a.key) < FirstSeen(b.key))
IdsOf(ranking) == [i \in 1..Len(ranking) |-> ranking[i].id]
KeysOf(entries) == [i \in 1..Len(entries) |-> entries[i].key]
IsExample ==
  /\ \A d \in 1..4 : keyOf[d] = d
  /\ IdsOf(vectorResults) = <<1, 2, 3>>
  /\ IdsOf(textResults) = <<2, 4>>

C11_TopByScore ==
  searchPc = "done" =>
    LET n == Len(results)
        entries == {scores[j] : j \in 1..Len(scores)}
        out == {results[i] : i \in 1..n}
    IN /\ n <= limit
       /\ n = Min(limit, Len(scores))
       /\ out \subseteq entries
       /\ \A i, j \in 1..n : i < j => Before(results[i], results[j])
       /\ \A e \in entries \ out : \A i \in 1..n : Before(results[i], e)
       /\ IsExample => KeysOf(results) = SubSeq(<<2, 1, 4, 3>>, 1, n)

C11_Witness ==
  /\ searchPc = "done"
  /\ IsExample
  /\ limit = 4
  /\ KeysOf(results) = <<2, 1, 4, 3>>
  /\ results[3].score = results[2].score - (Den \div 60) + (Den \div 61)

\* C12: Strategy B scores a row with the RRF formula of Strategy A: a
\* document at position i of the vector sub-ranking and position j of the
\* lexical one scores 1/(60 + i) + 1/(60 + j), positions counted from 0 as in
\* Strategy A (first in both: 1/30); an absent side counts as rank 9999.
ClaimedShare(ranking, id) ==
  IF RowNumber(IdsOf(ranking), id) = 0 THEN Den \div (60 + 9999)
  ELSE rrfScore(RowNumber(IdsOf(ranking), id) - 1)

C12_SameFormula ==
  (strategy = "B" /\ searchPc = "done" /\ query # "") =>
    \A i \in 1..Len(rows) :
      /\ rows[i].score = ClaimedShare(vectorResults, rows[i].id)
                           + ClaimedShare(textResults, rows[i].id)
      /\ (RowNumber(IdsOf(vectorResults), rows[i].id) = 1
          /\ RowNumber(IdsOf(textResults), rows[i].id) = 1) =>
            rows[i].score = Den \div 30

\* C13: Strategy B with sort_by = creation_date returns at most limit rows in
\* the order of their creation dates, ascending for sort_order = asc and
\* descending otherwise, whatever their scores; with sort_by =
\* modification_date the same holds of the modification dates. (Rows of equal
\* date stand in either order.)
DateOrdered(dates, order) ==
  \A i, j \in 1..Len(dates) :
    i < j => IF order = "asc" THEN dates[i] <= dates[j] ELSE dates[i] >= dates[j]

C13_SortedByDate ==
  (strategy = "B" /\ searchPc = "done") =>
    /\ Len(rows) <= limit
    /\ results = MapRows(rows)
    /\ (options.sort_by = "creation_date" /\ options.sort_order = "asc") =>
         DateOrdered([i \in 1..Len(rows) |-> rows[i].creation_date], "asc")
    /\ (options.sort_by = "creation_date" /\ options.sort_order # "asc") =>
         DateOrdered([i \in 1..Len(rows) |-> rows[i].creation_date], "desc")
    /\ (options.sort_by = "modification_date" /\ options.sort_order = "asc") =>
         DateOrdered([i \in 1..Len(rows) |-> rows[i].modification_date], "asc")
    /\ (options.sort_by = "modification_date" /\ options.sort_order # "asc") =>
         DateOrdered([i \in 1..Len(rows) |-> rows[i].modification_date], "desc")

C13_Witness ==
  /\ strategy = "B" /\ searchPc = "done"
  /\ options.sort_by = "creation_date" /\ options.sort_order = "asc"
  /\ limit = 2 /\ Len(rows) = 2
  /\ rows[1].creation_date < rows[2].creation_date
  /\ rows[1].score < rows[2].score
  /\ rows[1].modification_date = rows[2].modification_date
  /\ Len(vectorResults) = FETCH_SIZE /\ Len(textResults) = FETCH_SIZE
  /\ IdsOf(vectorResults) # IdsOf(textResults)

\* C14: a search that is answered with a result list was called with a
\* non-empty query and a limit of at least 1, and the list has at most limit
\* entries.
C14_ValidatedArguments ==
  searchPc = "done" => (query # "" /\ limit >= 1 /\ Len(results) <= limit)

\* C15: a search returns the fusion of both rankings or fails: Strategy A
\* fuses only when the embedding and both queries have answered, what it
\* returns is the fusion of the two whole rankings, and when the embedding or
\* a query has failed the call has failed and has built no result list.
Rejected == {f \in {"embedding", "vector", "text", "sql"} : awaited[f] = "rejected"}

C15_AllOrNothing ==
  /\ (strategy = "A" /\ searchPc \in {"fuse", "done"}) =>
       /\ awaited.embedding = "fulfilled"
       /\ awaited.vector = "fulfilled"
       /\ awaited.text = "fulfilled"
  /\ (strategy = "A" /\ searchPc = "done") =>
       /\ scores = ForEach(ForEach(<<>>, vectorResults, 0), textResults, 0)
       /\ results = TopResults(scores, limit)
  /\ Rejected # {} =>
       /\ searchPc = "failed"
       /\ scores = <<>> /\ results = <<>> /\ rows = <<>>

C15_Witness ==
  /\ strategy = "A" /\ searchPc = "failed"
  /\ awaited.vector = "fulfilled" /\ Len(vectorResults) = MaxLimit
  /\ awaited.text = "rejected"
  /\ results = <<>>

\* C16: with the source unchanged and runs one after another, once a first
\* full run has completed with no failed note, a full run started after it
\* leaves the table as it found it (same ids, same stored fields, one row per
\* id), and a sync run started after the full runs computes an empty toUpdate.
LaterRun(rec) == rec.pc # "idle" /\ rec.jobId # 1 /\ Len(jobs) >= 1

BatchAt(rec) ==
  [j \in 1..Min(BATCH_SIZE, Len(rec.notes) - rec.i) |-> rec.notes[rec.i + j]]

C17_BatchesInTurn ==
  \A r \in Runs :
    LET rec == runs[r]
        n == Len(rec.notes)
    IN /\ Len(rec.docs) <= BATCH_SIZE
       /\ rec.pc # "batch" => rec.docs = <<>>
       /\ rec.pc = "batch" =>
            /\ rec.i % BATCH_SIZE = 0 /\ rec.i < n
            /\ [j \in 1..Len(rec.docs) |-> rec.docs[j].id] = BatchAt(rec)
            /\ \E j \in 1..Len(rec.docs) : ~Settled(rec.docs[j])
            /\ rec.processedNotes + rec.failedNotes = rec.i + Len(rec.toDelete)
            /\ JobOf(rec).processedCount = rec.processedNotes
            /\ JobOf(rec).failedCount = rec.failedNotes
            /\ \A j \in 1..n : j > rec.i + BATCH_SIZE => rec.attempts[rec.notes[j]] = 0
       /\ rec.pc = "progress" =>
            /\ rec.processedNotes + rec.failedNotes
                 = Min(rec.i + BATCH_SIZE, n) + Len(rec.toDelete)
            /\ \A j \in 1..n : j > rec.i + BATCH_SIZE => rec.attempts[rec.notes[j]] = 0

C17_Witness ==
  \E r \in Runs :
    /\ runs[r].pc = "batch" /\ runs[r].i = BATCH_SIZE
    /\ runs[r].kind = "sync"
    /\ runs[r].failedNotes = 1 /\ runs[r].processedNotes = BATCH_SIZE - 1
    /\ Len(runs[r].docs) = 1 /\ runs[r].docs[1].st = "fetch"

\* C18: in a full run and in a sync run, the model is loaded before the first
\* note of the first batch starts: while a batch is in flight the extractor is
\* there and no note of the batch waits on the load.
C18_LoadedBeforeBatches ==
  \A r \in Runs :
    runs[r].pc = "batch" =>
      /\ extractor # 0
      /\ NumWith(runs[r].docs, "model") = 0

\* C19: in a sync run with something to delete, the rows of toDelete are
\* deleted and the job shows processedCount = |toDelete|, failedCount = 0
\* before the model is preloaded and before any note of toUpdate is fetched.
Deleting(rec) == rec.kind = "sync" /\ Len(rec.toDelete) > 0 /\ rec.jobId # 0

C19_DeletionsFirst ==
  \A r \in Runs :
    LET rec == runs[r] IN
    Deleting(rec) =>
      /\ (rec.deleted = {} \/ rec.pc = "progressDel") =>
           (NoAttempt(rec) /\ rec.got = {} /\ loads = 0 /\ rec.pc # "preload")
      /\ (rec.pc \in {"preload", "batch", "progress", "complete", "done"}) =>
           /\ rec.deleted = SeqToSet(rec.toDelete)
           /\ \A id \in rec.deleted : store[id] = Absent
           /\ JobOf(rec).processedCount >= Len(rec.toDelete)
      /\ (rec.pc = "preload" \/ (rec.pc = "batch" /\ rec.i = 0)) =>
           /\ JobOf(rec).processedCount = Len(rec.toDelete)
           /\ JobOf(rec).failedCount = 0

C19_Witness ==
  \E r \in Runs :
    /\ Deleting(runs[r])
    /\ runs[r].pc = "preload"
    /\ loadingPromise = "pending"
    /\ Len(runs[r].toDelete) = 2
    /\ Len(runs[r].notes) = 1
    /\ JobOf(runs[r]).processedCount = 2
    /\ NoAttempt(runs[r])

\* C20: once the progress update after batch k is stored, the job shows
\* processedCount + failedCount = the notes of batches 1..k, plus |toDelete|
\* in a sync run; and no step lowers a job's processedCount or failedCount.
Accounted(rec) ==
  (rec.jobId # 0 /\ rec.pc \in {"batch", "progress", "complete", "done"}) =>
    JobOf(rec).processedCount + JobOf(rec).failedCount
      = Min(rec.i, Len(rec.notes)) + Len(rec.toDelete)

C20_ProgressMonotone ==
  [][/\ \A r \in Runs : Accounted(runs[r])'
     /\ \A j \in 1..Len(jobs) :
          /\ jobs'[j].processedCount >= jobs[j].processedCount
          /\ jobs'[j].failedCount >= jobs[j].failedCount]_vars

C20_Witness ==
  \E r \in Runs :
    /\ runs[r].kind = "full" /\ runs[r].pc = "progress" /\ runs[r].i = BATCH_SIZE
    /\ JobOf(runs[r]).processedCount = 1 /\ JobOf(runs[r]).failedCount = 1
    /\ runs[r].processedNotes = 1 /\ runs[r].failedNotes = 2

\* C21: hybridSearch answers with Strategy B exactly when a date filter, an
\* image filter or a sort other than relevance is asked for, and with
\* Strategy A otherwise: no filter with sort_by absent or relevance is
\* Strategy A, and so is a call that sets sort_order alone.
AsksForAdvanced(o) ==
  IF o.defined
  THEN o.dated \/ o.has_images # "undefined"
       \/ o.sort_by \in {"creation_date", "modification_date"}
  ELSE FALSE

C21_StrategySelection ==
  (strategy # "none" /\ query # "" /\ limit >= 1) =>
    (strategy = "B" <=> AsksForAdvanced(options))

\* C22: a full run deletes no row: a row leaves the table only in the deletion
\* step of a sync run that has the id in its toDelete; the rows of the ids the
\* source no longer reports stay through a full run.
C22_FullRunKeepsRows ==
  [][\A id \in Ids :
       (store[id] # Absent /\ store'[id] = Absent) =>
         \E r \in Runs :
           /\ runs[r].kind = "sync" /\ runs[r].pc = "delete"
           /\ runs'[r].pc = "progressDel"
           /\ id \in SeqToSet(runs[r].toDelete)]_vars

C22_Witness ==
  /\ runs[1].kind = "full" /\ runs[1].pc = "done"
  /\ runs[1].upserted # {}
  /\ \E id \in Ids :
       /\ runs[1].S[id] = Absent /\ source[id] = Absent
       /\ store[id] # Absent
  /\ \E id \in Ids :
       /\ runs[1].S[id] # Absent /\ source[id] = Absent
       /\ store[id] # Absent

\* C23: in a sync run a note of toUpdate whose fetch answers null is counted
\* as processed and not as failed, and no row is written for it: the notes
\* counted as processed are the deleted ones, the upserted ones and the ones
\* fetched as null, and the row of a note fetched as null is as the metadata
\* listing found it, missing or stale.
Counted(rec) == rec.pc \in {"progress", "complete", "done"}

C23_NullFetchIsProcessed ==
  \A r \in Runs :
    LET rec == runs[r] IN
    rec.kind = "sync" =>
      /\ rec.absent \subseteq SeqToSet(rec.notes)
      /\ rec.absent \cap (rec.upserted \cup rec.embedded) = {}
      /\ \A id \in rec.absent :
           /\ rec.attempts[id] = 1
           /\ store[id] = rec.M[id]
           /\ store[id] = Absent \/ store[id] < rec.S[id]
      /\ Counted(rec) =>
           /\ rec.processedNotes
                = Len(rec.toDelete) + Cardinality(rec.upserted) + Cardinality(rec.absent)
           /\ rec.failedNotes = rec.docFails
      /\ rec.pc = "done" =>
           /\ JobOf(rec).processedCount = rec.processedNotes
           /\ JobOf(rec).failedCount = rec.failedNotes

C23_Witness ==
  \E r \in Runs :
    /\ runs[r].kind = "sync" /\ runs[r].pc = "done"
    /\ JobOf(runs[r]).status = "completed"
    /\ JobOf(runs[r]).failedCount = 0
    /\ JobOf(runs[r]).processedCount = JobOf(runs[r]).totalCount
    /\ Len(runs[r].notes) = NumNotes
    /\ \E id \in runs[r].absent : store[id] # Absent /\ store[id] < runs[r].S[id]
    /\ runs[r].upserted # {}

\* C24: a model load that has failed is kept: from then on loadingPromise is
\* the rejected promise, the extractor stays null, no further load is started,
\* and every call of getExtractor is answered with the rejection: no caller
\* waits, none gets an extractor, a preload fails and nothing is embedded.
FailedLoadKept ==
  loadingPromise = "rejected" =>
    /\ extractor = 0
    /\ loads = 1
    /\ \A r \in Runs :
         /\ Waiters(runs[r]) = 0
         /\ runs[r].got = {} /\ runs[r].embedded = {} /\ runs[r].upserted = {}
         /\ runs[r].pc # "preload"
         /\ runs[r].pc = "batch" => NumWith(runs[r].docs, "write") = 0

C24_FailedLoadIsKept ==
  [][/\ FailedLoadKept'
     /\ loadingPromise = "rejected" =>
          (loadingPromise' = "rejected" /\ extractor' = 0 /\ loads' = loads)]_vars

C24_Witness ==
  /\ loadingPromise = "rejected" /\ loads = 1
  /\ Len(jobs) = 2
  /\ jobs[1].status = "completed" /\ jobs[1].failedCount = 2
  /\ \E r \in Runs :
       /\ runs[r].kind = "sync" /\ runs[r].jobId = 2
       /\ runs[r].pc = "failed" /\ runs[r].failedAt = "preload"
  /\ \E r \in Runs :
       /\ runs[r].kind = "full" /\ runs[r].jobId = 1 /\ runs[r].pc = "done"

\* C25: a sync run that interleaves with another indexing run deletes only
\* documents that are absent from the source at the moment of the deletion: a
\* document that exists at the source and was upserted by the other run after
\* the sync's summary listing is not deleted by the sync run.
C25_DeletesOnlyAbsent ==
  [][\A r \in Runs, id \in Ids :
       (/\ runs[r].kind = "sync"
        /\ id \notin runs[r].deleted /\ id \in runs'[r].deleted
        /\ \E o \in Runs \ {r} : id \in runs[o].upserted)
         => source[id] = Absent]_vars

====
